---- MODULE Spec2Model ----
(***************************************************************************)
(* Scan-analysis orchestration of app/services/llm_service.py:             *)
(* _parse_image_paths, _download_image_to_tempfile, the diagnostic client  *)
(* (_analyze_diagnosis_and_match), the quality client                      *)
(* (_assess_image_quality) and MedicalLLMService.analyze_scan, which runs  *)
(* the two clients on two worker threads of a ThreadPoolExecutor; and the   *)
(* background task process_scan of main.py with the submissions and        *)
(* results tables it writes through app/services/supabase_service.py.      *)
(***************************************************************************)
EXTENDS Integers, Sequences, FiniteSets, TLC

\* ------------------------------------------------------------------ bounds
MaxImages == 2     \* longest locator list handed to analyze_scan
MaxPolls == 2      \* status polls counted exactly (the counter saturates)
MaxTextLen == 3    \* longest model response, in tokens
MaxLocs == 2       \* longest locator list whose string encoding is parsed
MaxLocLen == 2     \* longest locator, in characters, in an encoded list
MaxSubmissions == 2  \* submissions in the table

\* ------------------------------------------------- Python / JSON values
\* Python values carried by dicts are tagged strings, so that the JSON
\* boolean false and the JSON string "false" stay different values.
NoneVal == "None"
JTrue == "json:true"
JFalse == "json:false"
StrFalse == "str:false"
Absent == "absent"          \* marks a key the JSON object does not carry

\* bool(v) of Python: None, False and the empty string are falsy.
Truthy(v) == v \notin {NoneVal, JFalse, "str:"}

\* d.get(k, default)
Get(d, k, default) == IF k \in DOMAIN d THEN d[k] ELSE default

\* A dict built from a record of candidate values, leaving out absent keys.
MkDict(r) == [k \in {x \in DOMAIN r : r[x] # Absent} |-> r[k]]

\* json.loads can return a list, a number, a string or null as well as an
\* object; every such value is represented by NonDict.
NonDict == [nondict |-> "json:list"]
Unset == [unset |-> NoneVal]
IsDict(v) == "nondict" \notin DOMAIN v /\ "unset" \notin DOMAIN v

ErrorDict(msg) == [error |-> msg]
HasError(v) == "error" \in DOMAIN v

\* --------------------------------------------------------------- inputs
\* The i-th locator of a list handed to analyze_scan.  The code never
\* compares locators, so lists of pairwise different locators stand for
\* all lists of their length.
Locator(i) == "u" \o ToString(i)

Range(f) == {f[i] : i \in DOMAIN f}

RECURSIVE SeqsUpTo(_, _)
SeqsUpTo(S, n) ==
  IF n = 0 THEN {<<>>}
  ELSE LET shorter == SeqsUpTo(S, n - 1)
       IN  shorter \cup {Append(s, x) : s \in {t \in shorter : Len(t) = n - 1}, x \in S}

Orders ==
  { MkDict([scan_name |-> "str:CT Head", modality |-> "str:CT", age |-> "str:45", sex |-> "str:Male"]),
    MkDict([scan_name |-> "str:Chest", modality |-> Absent, age |-> "str:7", sex |-> "str:Female"]) }

DownloadOutcomes == {"ok", "request_error", "stream_error", "os_error"}

\* ------------------------------------------------------------- variables
VARIABLES
  image_paths_str,    \* the argument of analyze_scan: ListArg or StrArg
  order_details,      \* the Order dict
  orig,               \* the locator list the argument stands for (history)
  pc,                 \* position of the thread running analyze_scan
  image_paths,        \* parsed locator list
  local_image_paths,  \* temp-file names of the downloaded images, in order
  failed_downloads,   \* locators whose download returned None
  files,              \* temp files that exist on the filesystem
  created,            \* every temp file the fetcher ever created (history)
  dl_last,            \* how the last download went (history)
  diag_images,        \* image_paths parameter of the diagnostic client
  dpc,                \* position of the diagnostic worker
  dfut,               \* future_diagnosis: [state, val]
  dlast,              \* last provider response seen by the diagnostic client
  job_submits,        \* POST .../run calls
  polls,              \* GET .../status calls (saturates at MaxPolls)
  quality_images,     \* local_image_paths parameter of the quality client
  qpc,                \* position of the quality worker
  qfut,               \* future_quality: [state, val]
  qlast,              \* what the quality client ran into (history)
  gen_calls,          \* generate_content calls
  diagnosis_result,   \* local of analyze_scan
  quality_result,     \* local of analyze_scan
  exc,                \* exception propagating out of the with block
  report,             \* the dict analyze_scan returned
  outcome,            \* "running", "returned" or "raised"
  submissions,        \* submissions table: id -> status, "absent" = no row
  results,            \* results table: id -> number of rows of the submission
  task,               \* position of process_scan(id)
  scan_yield,         \* what the analysis of the submission's scan brings (history)
  step_raised         \* an exception reached the handler of process_scan(id) (history)

vars == <<image_paths_str, order_details, orig, pc, image_paths, local_image_paths,
          failed_downloads, files, created, dl_last, diag_images, dpc, dfut, dlast,
          job_submits, polls, quality_images, qpc, qfut, qlast, gen_calls,
          diagnosis_result, quality_result, exc, report, outcome,
          submissions, results, task, scan_yield, step_raised>>

mainVars == <<pc, image_paths, local_image_paths, failed_downloads, files, created, dl_last,
              diagnosis_result, quality_result, exc, report, outcome>>
diagVars == <<diag_images, dpc, dfut, dlast, job_submits, polls>>
qualVars == <<quality_images, qpc, qfut, qlast, gen_calls>>
callVars == <<image_paths_str, order_details, orig>>
scanVars == <<submissions, results, task, scan_yield, step_raised>>
argVars == <<callVars, scanVars>>

NoReport == [none |-> NoneVal]
Pending == [state |-> "pending", val |-> Unset]
FutValue(v) == [state |-> "value", val |-> v]
FutException == [state |-> "exception", val |-> Unset]
NoResponse == [cause |-> "none", status |-> NoneVal, cls |-> "na"]

\* The argument of analyze_scan is a list of locators or a str.
ListArg(L) == [type |-> "list", list |-> L, text |-> <<>>]
StrArg(t) == [type |-> "str", list |-> <<>>, text |-> t]

\* ------------------------------------------------------ _parse_image_paths
\* A str argument is a sequence of characters.  Characters of a locator:
\*   h  an ordinary character     /   the slash      bs  the backslash
\*   sq the single quote          dq  the double quote
\*   E  one character outside the Basic Multilingual Plane
\* Further characters of an encoded list: [ ] , sp (space), and, after a
\* backslash, uD and uL: the escapes \ud83d and \ude00 of the two surrogate
\* halves of E.  hs and ls are those halves as decoded characters.
LocChars == {"h", "/", "bs", "sq", "dq", "E"}
LocStrings == SeqsUpTo(LocChars, MaxLocLen)
LocLists == SeqsUpTo(LocStrings, MaxLocs)

RECURSIVE Flatten(_)
Flatten(ss) == IF ss = <<>> THEN <<>> ELSE Head(ss) \o Flatten(Tail(ss))

RECURSIVE Join(_, _)
Join(ss, sep) ==
  IF ss = <<>> THEN <<>>
  ELSE IF Len(ss) = 1 THEN ss[1]
  ELSE ss[1] \o sep \o Join(Tail(ss), sep)

\* repr(str): double quotes when the string holds a single quote and no
\* double quote, single quotes otherwise; the backslash and the enclosing
\* quote are escaped.
PyReprStr(str) ==
  LET q == IF "sq" \in Range(str) /\ "dq" \notin Range(str) THEN "dq" ELSE "sq"
      esc(c) == IF c = "bs" THEN <<"bs", "bs">>
                ELSE IF c = q THEN <<"bs", c>>
                ELSE <<c>>
  IN  <<q>> \o Flatten([i \in 1..Len(str) |-> esc(str[i])]) \o <<q>>

\* str(list) / repr(list)
PyRepr(L) ==
  <<"[">> \o Join([i \in 1..Len(L) |-> PyReprStr(L[i])], <<",", "sp">>) \o <<"]">>

\* A JSON encoder may write the slash as \/ (slash), characters outside
\* ASCII as \uXXXX escapes (ascii) and no space after the comma (compact).
JsonStyles == [slash : BOOLEAN, ascii : BOOLEAN, compact : BOOLEAN]

JsonStr(str, st) ==
  LET esc(c) == IF c \in {"bs", "dq"} THEN <<"bs", c>>
                ELSE IF c = "/" /\ st.slash THEN <<"bs", "/">>
                ELSE IF c = "E" /\ st.ascii THEN <<"bs", "uD", "bs", "uL">>
                ELSE <<c>>
  IN  <<"dq">> \o Flatten([i \in 1..Len(str) |-> esc(str[i])]) \o <<"dq">>

JsonText(L, st) ==
  <<"[">> \o Join([i \in 1..Len(L) |-> JsonStr(L[i], st)],
                  IF st.compact THEN <<",">> ELSE <<",", "sp">>) \o <<"]">>

ParseFail == [ok |-> FALSE, val |-> <<>>, next |-> 0]

RECURSIVE SkipSp(_, _)
SkipSp(t, i) == IF i <= Len(t) /\ t[i] = "sp" THEN SkipSp(t, i + 1) ELSE i

\* A backslash escape of a Python string literal: an unknown escape such as
\* \/ keeps its backslash; \ud83d and \ude00 stay two separate surrogates.
PyEscape(c) ==
  IF c = "bs" THEN <<"bs">>
  ELSE IF c \in {"sq", "dq"} THEN <<c>>
  ELSE IF c = "uD" THEN <<"hs">>
  ELSE IF c = "uL" THEN <<"ls">>
  ELSE <<"bs", c>>

RECURSIVE PyStringBody(_, _, _, _)
\* the rest of a string literal opened by the quote q, from position i
PyStringBody(t, i, q, acc) ==
  IF i > Len(t) THEN ParseFail
  ELSE IF t[i] = q THEN [ok |-> TRUE, val |-> acc, next |-> i + 1]
  ELSE IF t[i] = "bs"
  THEN IF i + 1 > Len(t) THEN ParseFail
       ELSE PyStringBody(t, i + 2, q, acc \o PyEscape(t[i + 1]))
  ELSE PyStringBody(t, i + 1, q, Append(acc, t[i]))

RECURSIVE PyItems(_, _, _)
\* the items of a list display after "[" or ","; a trailing comma is fine
PyItems(t, i, acc) ==
  LET j == SkipSp(t, i)
  IN  IF j > Len(t) THEN ParseFail
      ELSE IF t[j] = "]" /\ (acc # <<>> \/ t[j - 1] # ",")
      THEN [ok |-> TRUE, val |-> acc, next |-> j + 1]
      ELSE IF t[j] \in {"sq", "dq"}
      THEN LET str == PyStringBody(t, j + 1, t[j], <<>>)
               k == SkipSp(t, str.next)
           IN  IF ~str.ok \/ k > Len(t) THEN ParseFail
               ELSE IF t[k] = "," THEN PyItems(t, k + 1, Append(acc, str.val))
               ELSE IF t[k] = "]"
               THEN [ok |-> TRUE, val |-> Append(acc, str.val), next |-> k + 1]
               ELSE ParseFail
      ELSE ParseFail

\* ast.literal_eval on texts made of the characters above: a list display
\* of string literals ("list"), one string literal ("other"), or a
\* SyntaxError / ValueError ("error").
PyLiteralEval(t) ==
  LET j == SkipSp(t, 1)
  IN  IF j > Len(t) THEN [kind |-> "error", val |-> <<>>]
      ELSE IF t[j] = "["
      THEN LET r == PyItems(t, j + 1, <<>>)
           IN  IF r.ok /\ SkipSp(t, r.next) > Len(t)
               THEN [kind |-> "list", val |-> r.val]
               ELSE [kind |-> "error", val |-> <<>>]
      ELSE IF t[j] \in {"sq", "dq"}
      THEN LET r == PyStringBody(t, j + 1, t[j], <<>>)
           IN  IF r.ok /\ SkipSp(t, r.next) > Len(t)
               THEN [kind |-> "other", val |-> <<>>]
               ELSE [kind |-> "error", val |-> <<>>]
      ELSE [kind |-> "error", val |-> <<>>]

RECURSIVE JsonStringBody(_, _, _)
\* the rest of a JSON string from position i: \/ is the slash, a pair of
\* surrogate escapes is one character, any other escape is an error
JsonStringBody(t, i, acc) ==
  IF i > Len(t) THEN ParseFail
  ELSE IF t[i] = "dq" THEN [ok |-> TRUE, val |-> acc, next |-> i + 1]
  ELSE IF t[i] = "bs"
  THEN IF i + 1 > Len(t) THEN ParseFail
       ELSE LET c == t[i + 1]
            IN  IF c \in {"bs", "dq", "/"} THEN JsonStringBody(t, i + 2, Append(acc, c))
                ELSE IF c = "uD"
                THEN IF i + 3 <= Len(t) /\ t[i + 2] = "bs" /\ t[i + 3] = "uL"
                     THEN JsonStringBody(t, i + 4, Append(acc, "E"))
                     ELSE JsonStringBody(t, i + 2, Append(acc, "hs"))
                ELSE IF c = "uL" THEN JsonStringBody(t, i + 2, Append(acc, "ls"))
                ELSE ParseFail
  ELSE JsonStringBody(t, i + 1, Append(acc, t[i]))

RECURSIVE JsonItems(_, _, _)
\* the elements of a JSON array from position i, each a string
JsonItems(t, i, acc) ==
  LET j == SkipSp(t, i)
  IN  IF j > Len(t) \/ t[j] # "dq" THEN ParseFail
      ELSE LET str == JsonStringBody(t, j + 1, <<>>)
               k == SkipSp(t, str.next)
           IN  IF ~str.ok \/ k > Len(t) THEN ParseFail
               ELSE IF t[k] = "," THEN JsonItems(t, k + 1, Append(acc, str.val))
               ELSE IF t[k] = "]"
               THEN [ok |-> TRUE, val |-> Append(acc, str.val), next |-> k + 1]
               ELSE ParseFail

\* json.loads on the same texts: an array of strings ("list"), one string
\* ("other"), or a JSONDecodeError ("error").
JsonLoadsText(t) ==
  LET j == SkipSp(t, 1)
  IN  IF j > Len(t) THEN [kind |-> "error", val |-> <<>>]
      ELSE IF t[j] = "["
      THEN LET e == SkipSp(t, j + 1)
               r == IF e <= Len(t) /\ t[e] = "]"
                    THEN [ok |-> TRUE, val |-> <<>>, next |-> e + 1]
                    ELSE JsonItems(t, j + 1, <<>>)
           IN  IF r.ok /\ SkipSp(t, r.next) > Len(t)
               THEN [kind |-> "list", val |-> r.val]
               ELSE [kind |-> "error", val |-> <<>>]
      ELSE IF t[j] = "dq"
      THEN LET r == JsonStringBody(t, j + 1, <<>>)
           IN  IF r.ok /\ SkipSp(t, r.next) > Len(t)
               THEN [kind |-> "other", val |-> <<>>]
               ELSE [kind |-> "error", val |-> <<>>]
      ELSE [kind |-> "error", val |-> <<>>]

\* isinstance(image_paths_str, str): literal_eval first; json.loads only
\* when literal_eval raised; a text that is not a list is one locator.
ParseStr(t) ==
  LET py == PyLiteralEval(t)
  IN  IF py.kind = "list" THEN py.val
      ELSE IF py.kind = "other" THEN <<t>>
      ELSE LET js == JsonLoadsText(t)
           IN  IF js.kind = "list" THEN js.val ELSE <<t>>

\* isinstance(image_paths_str, list): the list is returned as it is.
ParseList(arg) == arg.list

\* ------------------------------------------- _download_image_to_tempfile
\* One call for the n-th locator.  NamedTemporaryFile hands out a fresh name
\* (here n); None is 0, which is falsy like None in "if local_path".
\*   ok            the request and all writes succeed: the name is returned
\*   request_error requests.get / raise_for_status raise RequestException
\*                 before the file is created: None
\*   stream_error  iter_content raises RequestException inside the with
\*                 block: the file (delete=False) stays, None is returned
\*   os_error      temp_file.write raises OSError, which the except clause
\*                 does not name: the file stays and the exception leaves
\* variant: the except clause does not cover the streaming loop
DownloadStreamErrorEscapes(n, o) ==
  [ value  |-> IF o = "ok" THEN n ELSE 0,
    made   |-> IF o = "request_error" THEN {} ELSE {n},
    raises |-> o \in {"os_error", "stream_error"} ]

_download_image_to_tempfile(n, o) ==
  [ value  |-> IF o = "ok" THEN n ELSE 0,
    made   |-> IF o = "request_error" THEN {} ELSE {n},
    raises |-> o = "os_error" ]

\* ------------------------------------------------- model response texts
\* A response text is a sequence of tokens:
\*   FO  the opening fence  ```json\n      FC  the closing fence  \n```
\*   J   the text of one JSON value        X   prose, which is not JSON
Tokens == {"FO", "FC", "J", "X"}
Texts == SeqsUpTo(Tokens, MaxTextLen)

RECURSIVE IndexFrom(_, _, _)
\* first position >= i holding tok, 0 if there is none
IndexFrom(text, tok, i) ==
  IF i > Len(text) THEN 0
  ELSE IF text[i] = tok THEN i
  ELSE IndexFrom(text, tok, i + 1)

RECURSIVE LastIndex(_, _, _)
\* last position <= i holding tok, 0 if there is none
LastIndex(text, tok, i) ==
  IF i = 0 THEN 0
  ELSE IF text[i] = tok THEN i
  ELSE LastIndex(text, tok, i - 1)

\* s.split(sep)[-1]: what follows the last sep, the whole text without one
SplitLast(text, sep) ==
  LET k == LastIndex(text, sep, Len(text))
  IN  IF k = Len(text) THEN <<>> ELSE SubSeq(text, k + 1, Len(text))

\* s.split(sep)[0]: what precedes the first sep, the whole text without one
SplitFirst(text, sep) ==
  LET k == IndexFrom(text, sep, 1)
  IN  IF k = 0 THEN text ELSE SubSeq(text, 1, k - 1)

\* json.loads of the extracted part; payload is the value J spells.
JsonLoads(part, payload) ==
  IF part = <<"J">> THEN [ok |-> TRUE, val |-> payload]
  ELSE [ok |-> FALSE, val |-> Unset]

\* The values J can spell when the part is parsed: an object out of objs or
\* a value that is not an object.
JsonValuesOf(part, objs) == IF part = <<"J">> THEN objs \cup {NonDict} ELSE {Unset}

\* result_str.split('```json\n')[-1].split('\n```')[0]
DiagJsonPart(text) == SplitFirst(SplitLast(text, "FO"), "FC")

RECURSIVE LStrip(_, _)
LStrip(text, S) ==
  IF text # <<>> /\ Head(text) \in S THEN LStrip(Tail(text), S) ELSE text

RECURSIVE RStrip(_, _)
RStrip(text, S) ==
  IF text # <<>> /\ text[Len(text)] \in S
  THEN RStrip(SubSeq(text, 1, Len(text) - 1), S) ELSE text

\* response.text.strip().lstrip('```json').rstrip('```').strip(): lstrip
\* removes leading characters out of {`, j, s, o, n}, that is whole fence
\* tokens of either kind; rstrip removes trailing backticks only.
QualityJsonPart(text) == RStrip(LStrip(text, {"FO", "FC"}), {"FC"})

\* Classification of a text by its fence markers, independent of the two
\* extraction functions above (used by the properties only).
HasFence(text) ==
  \E i, j \in 1..Len(text) : i < j /\ text[i] = "FO" /\ text[j] = "FC"
FencedContent(text) ==
  LET i == IndexFrom(text, "FO", 1)
      j == IndexFrom(text, "FC", i + 1)
  IN  SubSeq(text, i + 1, j - 1)
FenceClass(text) ==
  IF ~HasFence(text) THEN "nofence"
  ELSE IF FencedContent(text) = <<"J">> THEN "fenced_valid"
  ELSE "fenced_invalid"

\* ----------------------------------------------------- provider answers
DiagVerdicts ==
  { MkDict([diagnosis |-> "str:fracture", scan_match |-> JTrue, error |-> Absent]),
    MkDict([diagnosis |-> Absent, scan_match |-> JFalse, modality_match |-> JFalse,
            scan_name |-> "str:Knee", modality |-> "str:MRI", age |-> "str:90",
            sex |-> "str:Other", error |-> Absent]),
    MkDict([diagnosis |-> Absent, scan_match |-> Absent, error |-> "str:model refused"]) }

\* Objects the quality model can answer with: every combination of the
\* three verdict values, each with its key present or missing and the two
\* match values also as the string "false", and an object that carries an
\* error key.
QualityObj(q, s, m) ==
  MkDict([image_quality |-> q, scan_match |-> s, modality_match |-> m,
          reason_of_rejection |-> IF q = "str:rejected" THEN "str:blurred" ELSE Absent])

QualityVerdicts ==
  { QualityObj(q, s, m) : q \in {"str:optimal", "str:rejected", Absent},
                          s \in {JTrue, JFalse, StrFalse, Absent},
                          m \in {JTrue, JFalse, StrFalse, Absent} }
  \cup { MkDict([error |-> "str:cannot assess"]) }

DiagErr(cause) == ErrorDict("str:Failed to get diagnostic analysis: " \o cause)
QualErr(cause) == ErrorDict("str:Failed to get quality assessment: " \o cause)

PendingStatuses == {"IN_QUEUE", "IN_PROGRESS"}
Statuses == PendingStatuses \cup {"COMPLETED", "FAILED", "CANCELLED", NoneVal}

\* What GET status/{job_id} can bring: the call or response.json() raises;
\* a status without usable output; COMPLETED with output that is not of the
\* nested shape; COMPLETED with a text.
PollResponses ==
  { [kind |-> "exception", status |-> NoneVal, text |-> <<>>] }
  \cup { [kind |-> "json", status |-> st, text |-> <<>>] : st \in Statuses \ {"COMPLETED"} }
  \cup { [kind |-> "bad_output", status |-> "COMPLETED", text |-> <<>>] }
  \cup { [kind |-> "json", status |-> "COMPLETED", text |-> t] : t \in Texts }

\* What generate_content can bring: the call (or response.text) raises, or
\* a text.
GenResponses ==
  { [kind |-> "exception", text |-> <<>>] }
  \cup { [kind |-> "text", text |-> t] : t \in Texts }

\* ------------------------------------------ _analyze_diagnosis_and_match
\* variant: a status outside the known ones is polled again
DiagOnResponseRetryUnknown(r, p) ==
  IF r.kind = "exception"
  THEN [again |-> FALSE, val |-> DiagErr("request failed"), cause |-> "remote_call_failure"]
  ELSE IF r.status = "COMPLETED"
  THEN IF r.kind = "bad_output"
       THEN [again |-> FALSE, val |-> DiagErr("bad output"), cause |-> "parse_failure"]
       ELSE LET j == JsonLoads(DiagJsonPart(r.text), p)
            IN  IF j.ok
                THEN [again |-> FALSE, val |-> j.val, cause |-> "verdict"]
                ELSE [again |-> FALSE, val |-> DiagErr("invalid json"), cause |-> "parse_failure"]
  ELSE IF r.status = "FAILED"
  THEN [again |-> FALSE, val |-> DiagErr("Job failed"), cause |-> "remote_call_failure"]
  ELSE IF r.status \in PendingStatuses
  THEN [again |-> TRUE, val |-> Unset, cause |-> "none"]
  ELSE [again |-> TRUE, val |-> Unset, cause |-> "unexpected_status"]

\* One iteration of the while loop on the response r (p is the value its
\* JSON text spells), with the except clause around it: again = sleep and
\* poll once more, otherwise val is what the client returns.
DiagOnResponse(r, p) ==
  IF r.kind = "exception"
  THEN [again |-> FALSE, val |-> DiagErr("request failed"), cause |-> "remote_call_failure"]
  ELSE IF r.status = "COMPLETED"
  THEN IF r.kind = "bad_output"
       THEN [again |-> FALSE, val |-> DiagErr("bad output"), cause |-> "parse_failure"]
       ELSE LET j == JsonLoads(DiagJsonPart(r.text), p)
            IN  IF j.ok
                THEN [again |-> FALSE, val |-> j.val, cause |-> "verdict"]
                ELSE [again |-> FALSE, val |-> DiagErr("invalid json"), cause |-> "parse_failure"]
  ELSE IF r.status = "FAILED"
  THEN [again |-> FALSE, val |-> DiagErr("Job failed"), cause |-> "remote_call_failure"]
  ELSE IF r.status \in PendingStatuses
  THEN [again |-> TRUE, val |-> Unset, cause |-> "none"]
  ELSE [again |-> FALSE, val |-> DiagErr("Unknown status"), cause |-> "unexpected_status"]

\* open("app/services/MedgemmaPromptV5.txt") stands before the try: a
\* failure to read it is stored in the future as an exception.
DiagOpenPrompt(ok) ==
  /\ dpc = "open_prompt"
  /\ IF ok
     THEN dpc' = "post" /\ UNCHANGED <<dfut, dlast>>
     ELSE /\ dpc' = "done"
          /\ dfut' = FutException
          /\ dlast' = [cause |-> "prompt_missing", status |-> NoneVal, cls |-> "na"]
  /\ UNCHANGED <<job_submits, polls>>
  /\ UNCHANGED <<diag_images, mainVars, qualVars, argVars>>

\* requests.post(.../run) and response_object.json()['id']
DiagPost(ok) ==
  /\ dpc = "post"
  /\ job_submits' = job_submits + 1
  /\ IF ok
     THEN dpc' = "poll" /\ UNCHANGED <<dfut, dlast>>
     ELSE /\ dpc' = "done"
          /\ dfut' = FutValue(DiagErr("submit failed"))
          /\ dlast' = [cause |-> "remote_call_failure", status |-> NoneVal, cls |-> "na"]
  /\ UNCHANGED polls
  /\ UNCHANGED <<diag_images, mainVars, qualVars, argVars>>

\* What one poll can come to: the step the client takes on each response
\* the provider can send, with what is remembered of the response.
DiagStep(r, p) ==
  LET d == DiagOnResponse(r, p)
  IN  [again |-> d.again, val |-> d.val,
       last |-> [cause |-> d.cause, status |-> r.status,
                 cls |-> IF r.kind = "json" /\ r.status = "COMPLETED"
                         THEN FenceClass(r.text) ELSE "na"]]

DiagSteps ==
  UNION { {DiagStep(r, p) : p \in JsonValuesOf(DiagJsonPart(r.text), DiagVerdicts)} :
            r \in PollResponses }

\* variant: the loop gives up after MaxPolls polls
DiagPollTimeout(d) ==
  /\ dpc = "poll"
  /\ polls' = IF polls < MaxPolls THEN polls + 1 ELSE polls
  /\ dlast' = d.last
  /\ IF d.again /\ polls + 1 < MaxPolls
     THEN UNCHANGED <<dpc, dfut>>
     ELSE /\ dpc' = "done"
          /\ dfut' = FutValue(IF d.again THEN DiagErr("timed out") ELSE d.val)
  /\ UNCHANGED job_submits
  /\ UNCHANGED <<diag_images, mainVars, qualVars, argVars>>

\* requests.get(.../status/{job_id}) and the branch on the status
DiagPoll(d) ==
  /\ dpc = "poll"
  /\ polls' = IF polls < MaxPolls THEN polls + 1 ELSE polls
  /\ dlast' = d.last
  /\ IF d.again
     THEN UNCHANGED <<dpc, dfut>>
     ELSE dpc' = "done" /\ dfut' = FutValue(d.val)
  /\ UNCHANGED job_submits
  /\ UNCHANGED <<diag_images, mainVars, qualVars, argVars>>

\* ------------------------------------------------- _assess_image_quality
\* open("app/services/SystemPromptV8.txt") stands before the try.
QualOpenPrompt(ok) ==
  /\ qpc = "open_prompt"
  /\ IF ok
     THEN qpc' = "open_images" /\ UNCHANGED <<qfut, qlast>>
     ELSE qpc' = "done" /\ qfut' = FutException /\ qlast' = "prompt_missing"
  /\ UNCHANGED gen_calls
  /\ UNCHANGED <<quality_images, mainVars, diagVars, argVars>>

\* Image.open of every local path: a path that is gone, or a file that is
\* not an image (readable = FALSE), raises inside the try.
QualOpenImages(readable) ==
  /\ qpc = "open_images"
  /\ IF readable /\ Range(quality_images) \subseteq files
     THEN qpc' = "generate" /\ UNCHANGED <<qfut, qlast>>
     ELSE /\ qpc' = "done"
          /\ qfut' = FutValue(QualErr("cannot open image"))
          /\ qlast' = "image_open_failed"
  /\ UNCHANGED gen_calls
  /\ UNCHANGED <<quality_images, mainVars, diagVars, argVars>>

QualityOnResponse(r, p) ==
  IF r.kind = "exception"
  THEN [val |-> QualErr("request failed"), cause |-> "remote_call_failure"]
  ELSE LET j == JsonLoads(QualityJsonPart(r.text), p)
       IN  IF j.ok THEN [val |-> j.val, cause |-> "verdict"]
           ELSE [val |-> QualErr("invalid json"), cause |-> "parse_failure"]

\* What one generate_content call can come to
QualitySteps ==
  UNION { {QualityOnResponse(r, p) :
             p \in JsonValuesOf(QualityJsonPart(r.text), QualityVerdicts)} :
            r \in GenResponses }

\* self.quality_model.generate_content(content) and the parse of its text
QualGenerate(q) ==
  /\ qpc = "generate"
  /\ gen_calls' = gen_calls + 1
  /\ qpc' = "done"
  /\ qfut' = FutValue(q.val) /\ qlast' = q.cause
  /\ UNCHANGED <<quality_images, mainVars, diagVars, argVars>>

\* ---------------------------------------------------------- analyze_scan
\* _parse_image_paths applied to the argument
_parse_image_paths(arg) ==
  IF arg.type = "str" THEN ParseStr(arg.text) ELSE ParseList(arg)

NoPathsReport ==
  [status |-> "REJECTED", reason |-> "No valid image paths provided.",
   diagnosis_error |-> "str:No images to analyze.",
   quality_error |-> "str:No images to analyze."]

AllFailedReport(failed) ==
  [status |-> "REJECTED",
   reason |-> "Failed to download any images from the provided URLs.",
   diagnosis_error |-> "str:All image downloads failed.",
   quality_error |-> "str:All image downloads failed.",
   failed_downloads |-> failed]

\* variant: "and" in place of "or"
AnyErrorBoth(d, q) == HasError(d) /\ HasError(q)

\* "error" in diagnosis_result or "error" in quality_result
AnyError(d, q) == HasError(d) \/ HasError(q)

\* variant: both fields read the diagnostic result
ErrorReportOneSource(d, q) ==
  [status |-> "REJECTED",
   reason |-> "Failed to complete analysis due to API errors.",
   diagnosis_error |-> Get(d, "error", NoneVal),
   quality_error |-> Get(d, "error", NoneVal)]

ErrorReport(d, q) ==
  [status |-> "REJECTED",
   reason |-> "Failed to complete analysis due to API errors.",
   diagnosis_error |-> Get(d, "error", NoneVal),
   quality_error |-> Get(q, "error", NoneVal)]

\* the if at the end of analyze_scan
DecideStatus(scan_match, modality_match, quality) ==
  IF ~Truthy(scan_match) \/ ~Truthy(modality_match) \/ quality = "str:rejected"
  THEN "REJECTED" ELSE "ACCEPTED"

\* variant: a missing key counts in favour of the scan
FinalReportFailOpen(d, q, o) ==
  LET quality == Get(q, "image_quality", "str:optimal")
      scan_match == Get(q, "scan_match", JTrue)
      modality_match == Get(q, "modality_match", JTrue)
  IN  [scan_name |-> Get(o, "scan_name", NoneVal),
       age |-> Get(o, "age", NoneVal),
       sex |-> Get(o, "sex", NoneVal),
       modality |-> Get(o, "modality", "str:Unknown"),
       quality |-> quality,
       scan_match |-> scan_match,
       modality_match |-> modality_match,
       reason_of_rejection |-> Get(q, "reason_of_rejection", "str:null"),
       diagnosis |-> Get(d, "diagnosis", "str:No diagnosis could be generated."),
       status |-> DecideStatus(scan_match, modality_match, quality)]

\* final_report and the status decided from it
FinalReport(d, q, o) ==
  LET quality == Get(q, "image_quality", "str:rejected")
      scan_match == Get(q, "scan_match", JFalse)
      modality_match == Get(q, "modality_match", JFalse)
  IN  [scan_name |-> Get(o, "scan_name", NoneVal),
       age |-> Get(o, "age", NoneVal),
       sex |-> Get(o, "sex", NoneVal),
       modality |-> Get(o, "modality", "str:Unknown"),
       quality |-> quality,
       scan_match |-> scan_match,
       modality_match |-> modality_match,
       reason_of_rejection |-> Get(q, "reason_of_rejection", "str:null"),
       diagnosis |-> Get(d, "diagnosis", "str:No diagnosis could be generated."),
       status |-> DecideStatus(scan_match, modality_match, quality)]

\* variant: the verdict keys are read from the diagnostic result
CombineResultsDiagDecides(d, q, o) ==
  IF ~IsDict(d) \/ ~IsDict(q) THEN [raises |-> TRUE, report |-> NoReport]
  ELSE IF AnyError(d, q) THEN [raises |-> FALSE, report |-> ErrorReport(d, q)]
  ELSE [raises |-> FALSE, report |-> FinalReport(d, d, o)]

\* Everything after the finally block.  A result that is not a dict has no
\* .get (and, for numbers and null, no "in"): TypeError or AttributeError
\* leaves analyze_scan whatever the other result is.
CombineResults(d, q, o) ==
  IF ~IsDict(d) \/ ~IsDict(q) THEN [raises |-> TRUE, report |-> NoReport]
  ELSE IF AnyError(d, q) THEN [raises |-> FALSE, report |-> ErrorReport(d, q)]
  ELSE [raises |-> FALSE, report |-> FinalReport(d, q, o)]

\* variant: results are taken without waiting for the worker
FinishedNoWait(f) == TRUE

\* Future.result() and the executor's shutdown(wait=True) block until the
\* worker has stored its value or its exception.
Finished(f) == f.state # "pending"

Return(r) == report' = r /\ outcome' = "returned" /\ pc' = "done"
Raise == report' = NoReport /\ outcome' = "raised" /\ pc' = "done"

ParseImagePaths ==
  /\ pc = "parse"
  /\ image_paths' = _parse_image_paths(image_paths_str)
  /\ IF image_paths' = <<>>
     THEN Return(NoPathsReport)
     ELSE pc' = "download" /\ UNCHANGED <<report, outcome>>
  /\ UNCHANGED <<local_image_paths, failed_downloads, files, created, dl_last,
                 diagnosis_result, quality_result, exc>>
  /\ UNCHANGED <<diagVars, qualVars, argVars>>

\* one iteration of the download loop
Download(o) ==
  /\ pc = "download"
  /\ LET n == Len(local_image_paths) + Len(failed_downloads) + 1
         r == _download_image_to_tempfile(n, o)
     IN  /\ n <= Len(image_paths)
         /\ files' = files \cup r.made
         /\ created' = created \cup r.made
         /\ dl_last' = o
         /\ IF r.raises
            THEN Raise /\ UNCHANGED <<local_image_paths, failed_downloads>>
            ELSE /\ UNCHANGED <<pc, report, outcome>>
                 /\ IF r.value # 0
                    THEN /\ local_image_paths' = Append(local_image_paths, r.value)
                         /\ UNCHANGED failed_downloads
                    ELSE /\ failed_downloads' = Append(failed_downloads, image_paths[n])
                         /\ UNCHANGED local_image_paths
  /\ UNCHANGED <<image_paths, diagnosis_result, quality_result, exc>>
  /\ UNCHANGED <<diagVars, qualVars, argVars>>

\* variant: the short-circuit is missing
NoLocalFilesIgnored(local) == FALSE

\* "if not local_image_paths" after the loop
NoLocalFiles(local) == local = <<>>

DownloadsDone ==
  /\ pc = "download"
  /\ Len(local_image_paths) + Len(failed_downloads) = Len(image_paths)
  /\ IF NoLocalFiles(local_image_paths)
     THEN Return(AllFailedReport(failed_downloads))
     ELSE pc' = "submit_diagnosis" /\ UNCHANGED <<report, outcome>>
  /\ UNCHANGED <<image_paths, local_image_paths, failed_downloads, files, created, dl_last,
                 diagnosis_result, quality_result, exc>>
  /\ UNCHANGED <<diagVars, qualVars, argVars>>

\* variant: the diagnostic client gets the downloaded locators only
SubmitDiagnosisDownloadedOnly ==
  /\ pc = "submit_diagnosis"
  /\ pc' = "submit_quality"
  /\ dpc' = "open_prompt"
  /\ diag_images' = SelectSeq(image_paths, LAMBDA u : u \notin Range(failed_downloads))
  /\ UNCHANGED <<dfut, dlast, job_submits, polls>>
  /\ UNCHANGED <<image_paths, local_image_paths, failed_downloads, files, created, dl_last,
                 diagnosis_result, quality_result, exc, report, outcome>>
  /\ UNCHANGED <<qualVars, argVars>>

\* executor.submit(self._analyze_diagnosis_and_match, image_paths, ...)
SubmitDiagnosis ==
  /\ pc = "submit_diagnosis"
  /\ pc' = "submit_quality"
  /\ dpc' = "open_prompt"
  /\ diag_images' = image_paths
  /\ UNCHANGED <<dfut, dlast, job_submits, polls>>
  /\ UNCHANGED <<image_paths, local_image_paths, failed_downloads, files, created, dl_last,
                 diagnosis_result, quality_result, exc, report, outcome>>
  /\ UNCHANGED <<qualVars, argVars>>

\* executor.submit(self._assess_image_quality, local_image_paths, ...)
SubmitQuality ==
  /\ pc = "submit_quality"
  /\ pc' = "result_diagnosis"
  /\ qpc' = "open_prompt"
  /\ quality_images' = local_image_paths
  /\ UNCHANGED <<qfut, qlast, gen_calls>>
  /\ UNCHANGED <<image_paths, local_image_paths, failed_downloads, files, created, dl_last,
                 diagnosis_result, quality_result, exc, report, outcome>>
  /\ UNCHANGED <<diagVars, argVars>>

\* diagnosis_result = future_diagnosis.result()
ResultDiagnosis ==
  /\ pc = "result_diagnosis"
  /\ Finished(dfut)
  /\ IF dfut.state = "exception"
     THEN exc' = TRUE /\ pc' = "exit_executor" /\ UNCHANGED diagnosis_result
     ELSE diagnosis_result' = dfut.val /\ pc' = "result_quality" /\ UNCHANGED exc
  /\ UNCHANGED <<image_paths, local_image_paths, failed_downloads, files, created, dl_last,
                 quality_result, report, outcome>>
  /\ UNCHANGED <<diagVars, qualVars, argVars>>

\* quality_result = future_quality.result()
ResultQuality ==
  /\ pc = "result_quality"
  /\ Finished(qfut)
  /\ IF qfut.state = "exception"
     THEN exc' = TRUE /\ UNCHANGED quality_result
     ELSE quality_result' = qfut.val /\ UNCHANGED exc
  /\ pc' = "exit_executor"
  /\ UNCHANGED <<image_paths, local_image_paths, failed_downloads, files, created, dl_last,
                 diagnosis_result, report, outcome>>
  /\ UNCHANGED <<diagVars, qualVars, argVars>>

\* variant: the executor is left without waiting for the workers
ShutdownNoWait == TRUE

\* __exit__ of the executor: shutdown(wait=True) joins both worker threads
ShutdownWait == Finished(dfut) /\ Finished(qfut)

\* Leaving "with ThreadPoolExecutor() as executor" (shutdown(wait=True)
\* blocks until both workers are through), then the finally block
\* (os.remove of every local path that exists), then either the pending
\* exception leaves analyze_scan or the results are combined.  No other
\* thread of this invocation runs once the wait is over.
ExitAndCombine ==
  /\ pc = "exit_executor"
  /\ ShutdownWait
  /\ files' = files \ Range(local_image_paths)
  /\ IF exc
     THEN Raise
     ELSE LET c == CombineResults(diagnosis_result, quality_result, order_details)
          IN  IF c.raises THEN Raise ELSE Return(c.report)
  /\ UNCHANGED <<image_paths, local_image_paths, failed_downloads, created, dl_last,
                 diagnosis_result, quality_result, exc>>
  /\ UNCHANGED <<diagVars, qualVars, argVars>>

\* ----------------------------------------------------------- process_scan
Ids == 1..MaxSubmissions
NoSubmissions ==
  /\ submissions = [id \in Ids |-> "absent"]
  /\ results = [id \in Ids |-> 0]
  /\ task = [id \in Ids |-> "none"]
  /\ scan_yield = [id \in Ids |-> "none"]
  /\ step_raised = [id \in Ids |-> FALSE]

\* A call binds its arguments before the body runs: with keywords, every
\* keyword must name a parameter and every parameter without a default
\* must be given; positionally, as many arguments as parameters without a
\* default.  Anything else is a TypeError raised at the call.
BindsKeywords(params, keywords) == keywords = params
BindsPositional(params, args) == Len(args) = Len(params)

\* def analyze_scan(self, image_paths_str, order_details) and its call
AnalyzeScanParams == {"image_paths_str", "order_details"}
AnalyzeScanKeywords == {"image_path", "order_details"}

\* def save_result(self, submission_id, llm_result, processing_time) and
\* its call
SaveResultParams == <<"submission_id", "llm_result", "processing_time">>
SaveResultArgs == <<"submission_id", "image_path", "llm_result", "processing_time">>

\* def create_result(self, ...) and the call in save_result
CreateResultParams ==
  {"submission_id", "scan_name", "image_path", "age", "sex", "modality", "quality",
   "scan_match", "modality_match", "reason_of_rejection", "diagnosis", "status",
   "processing_time"}
CreateResultKeywords ==
  {"submission_id", "patient_id", "scan_name", "image_path", "age", "sex", "status",
   "quality", "scan_match", "modality", "diagnosis", "processing_time"}

\* What the body of analyze_scan brings for a scan: a report with its
\* status, or an exception.
ScanYields == {"ACCEPTED", "REJECTED", "raises"}

\* process_scan from the call of analyze_scan to the end of the try block,
\* for a scan whose analysis brings a: whether an exception reaches the
\* handler, the result rows inserted, and the statuses written to the
\* submission in order (create_result writes the report's status, then
\* process_scan writes "completed").  An insert that fails inside
\* create_result is printed and swallowed there.
AnalyzeAndSave(a, insert_ok) ==
  IF ~BindsKeywords(AnalyzeScanParams, AnalyzeScanKeywords) \/ a = "raises"
  THEN [raises |-> TRUE, rows |-> 0, writes |-> <<>>]
  ELSE IF \/ ~BindsPositional(SaveResultParams, SaveResultArgs)
          \/ ~BindsKeywords(CreateResultParams, CreateResultKeywords)
  THEN [raises |-> TRUE, rows |-> 0, writes |-> <<>>]
  ELSE IF insert_ok
  THEN [raises |-> FALSE, rows |-> 1, writes |-> <<a, "completed">>]
  ELSE [raises |-> FALSE, rows |-> 0, writes |-> <<"completed">>]

\* update(...).eq('id', id): a row that does not exist is not created
UpdateStatus(table, id, status) ==
  IF table[id] = "absent" THEN table ELSE [table EXCEPT ![id] = status]

ToHandler(id) ==
  /\ task' = [task EXCEPT ![id] = "handler"]
  /\ step_raised' = [step_raised EXCEPT ![id] = TRUE]

\* POST /api/submit-scan: create_submission inserts the row with status
\* pending and process_scan(id) is added as a background task
SubmitScan(id) ==
  /\ task[id] = "none" /\ submissions[id] = "absent"
  /\ submissions' = [submissions EXCEPT ![id] = "pending"]
  /\ task' = [task EXCEPT ![id] = "get_submission"]
  /\ UNCHANGED <<results, scan_yield, step_raised>>
  /\ UNCHANGED <<mainVars, diagVars, qualVars, callVars>>

\* process_scan(id) started for an id that has no row
ProcessUnknown(id) ==
  /\ task[id] = "none" /\ submissions[id] = "absent"
  /\ task' = [task EXCEPT ![id] = "get_submission"]
  /\ UNCHANGED <<submissions, results, scan_yield, step_raised>>
  /\ UNCHANGED <<mainVars, diagVars, qualVars, callVars>>

\* submission = await supabase_service.get_submission(id); if not
\* submission: return
GetSubmission(id, db_ok) ==
  /\ task[id] = "get_submission"
  /\ IF ~db_ok THEN ToHandler(id)
     ELSE /\ task' = [task EXCEPT ![id] =
                        IF submissions[id] = "absent" THEN "done" ELSE "mark_processing"]
          /\ UNCHANGED step_raised
  /\ UNCHANGED <<submissions, results, scan_yield>>
  /\ UNCHANGED <<mainVars, diagVars, qualVars, callVars>>

\* await supabase_service.update_submission_status(id, "processing")
MarkProcessing(id, db_ok) ==
  /\ task[id] = "mark_processing"
  /\ IF ~db_ok THEN ToHandler(id) /\ UNCHANGED submissions
     ELSE /\ submissions' = UpdateStatus(submissions, id, "processing")
          /\ task' = [task EXCEPT ![id] = "analyze"]
          /\ UNCHANGED step_raised
  /\ UNCHANGED <<results, scan_yield>>
  /\ UNCHANGED <<mainVars, diagVars, qualVars, callVars>>

\* llm_service.analyze_scan(image_path=..., order_details=...), save_result
\* and update_submission_status(id, "completed")
AnalyzeScan(id, a, insert_ok) ==
  /\ task[id] = "analyze"
  /\ scan_yield' = [scan_yield EXCEPT ![id] = a]
  /\ LET r == AnalyzeAndSave(a, insert_ok)
     IN  IF r.raises THEN ToHandler(id) /\ UNCHANGED <<submissions, results>>
         ELSE /\ results' = [results EXCEPT ![id] = @ + r.rows]
              /\ submissions' = UpdateStatus(submissions, id, r.writes[Len(r.writes)])
              /\ task' = [task EXCEPT ![id] = "done"]
              /\ UNCHANGED step_raised
  /\ UNCHANGED <<mainVars, diagVars, qualVars, callVars>>

\* except Exception: update_submission_status(id, "failed"); when that
\* update raises as well the status stays as it was
MarkFailed(id, db_ok) ==
  /\ task[id] = "handler"
  /\ submissions' = IF db_ok THEN UpdateStatus(submissions, id, "failed") ELSE submissions
  /\ task' = [task EXCEPT ![id] = "done"]
  /\ UNCHANGED <<results, scan_yield, step_raised>>
  /\ UNCHANGED <<mainVars, diagVars, qualVars, callVars>>

\* ------------------------------------------------------- specification
ListArgs == {ListArg([i \in 1..n |-> Locator(i)]) : n \in 0..MaxImages}

InitCall(args) ==
  /\ image_paths_str \in args
  /\ order_details \in Orders
  /\ pc = "parse"
  /\ image_paths = <<>>
  /\ local_image_paths = <<>>
  /\ failed_downloads = <<>>
  /\ files = {}
  /\ created = {}
  /\ dl_last = "none"
  /\ diag_images = <<>> /\ quality_images = <<>>
  /\ dpc = "idle" /\ dfut = Pending /\ dlast = NoResponse
  /\ job_submits = 0 /\ polls = 0
  /\ qpc = "idle" /\ qfut = Pending /\ qlast = "none"
  /\ gen_calls = 0
  /\ diagnosis_result = Unset
  /\ quality_result = Unset
  /\ exc = FALSE
  /\ report = NoReport
  /\ outcome = "running"
  /\ NoSubmissions

Init == InitCall(ListArgs) /\ orig = image_paths_str.list

Next ==
  \/ ParseImagePaths
  \/ \E o \in DownloadOutcomes : Download(o)
  \/ DownloadsDone
  \/ SubmitDiagnosis
  \/ SubmitQuality
  \/ \E ok \in BOOLEAN : DiagOpenPrompt(ok)
  \/ \E ok \in BOOLEAN : DiagPost(ok)
  \/ \E d \in DiagSteps : DiagPoll(d)
  \/ \E ok \in BOOLEAN : QualOpenPrompt(ok)
  \/ \E readable \in BOOLEAN : QualOpenImages(readable)
  \/ \E q \in QualitySteps : QualGenerate(q)
  \/ ResultDiagnosis
  \/ ResultQuality
  \/ ExitAndCombine

Spec == Init /\ [][Next]_vars

\* The three threads of one invocation: the caller's thread and the two
\* worker threads of the ThreadPoolExecutor.
MainThread ==
  \/ ParseImagePaths
  \/ \E o \in DownloadOutcomes : Download(o)
  \/ DownloadsDone
  \/ SubmitDiagnosis
  \/ SubmitQuality
  \/ ResultDiagnosis
  \/ ResultQuality
  \/ ExitAndCombine

DiagnosisWorker ==
  \/ \E ok \in BOOLEAN : DiagOpenPrompt(ok)
  \/ \E ok \in BOOLEAN : DiagPost(ok)
  \/ \E d \in DiagSteps : DiagPoll(d)

QualityWorker ==
  \/ \E ok \in BOOLEAN : QualOpenPrompt(ok)
  \/ \E readable \in BOOLEAN : QualOpenImages(readable)
  \/ \E q \in QualitySteps : QualGenerate(q)

\* Every thread that can take a step is scheduled in the end, and every
\* blocking call it makes (HTTP request, generate_content, sleep) comes
\* back.  Which answer comes back is not constrained: IN_QUEUE for ever is
\* a fair behaviour.
Fairness ==
  /\ WF_vars(MainThread)
  /\ WF_vars(DiagnosisWorker)
  /\ WF_vars(QualityWorker)

LiveSpec == Init /\ [][Next]_vars /\ Fairness

\* The argument forms of one locator list L: the list itself, str(L), the
\* JSON texts of L, and for a single locator the bare locator.
ArgsOf(L) ==
  {ListArg(L), StrArg(PyRepr(L))}
  \cup {StrArg(JsonText(L, st)) : st \in JsonStyles}
  \cup (IF Len(L) = 1 THEN {StrArg(L[1])} ELSE {})

\* analyze_scan up to the end of _parse_image_paths, on every form of
\* every locator list
InitParse == \E L \in LocLists : orig = L /\ InitCall(ArgsOf(L))

ParseSpec == InitParse /\ [][ParseImagePaths]_vars

\* process_scan tasks of the submissions, analyze_scan being the call
InitProcess ==
  /\ InitCall({ListArg(<<>>)})
  /\ orig = <<>>
  /\ "modality" \in DOMAIN order_details

NextProcess ==
  \/ \E id \in Ids : SubmitScan(id)
  \/ \E id \in Ids : ProcessUnknown(id)
  \/ \E id \in Ids, db_ok \in BOOLEAN : GetSubmission(id, db_ok)
  \/ \E id \in Ids, db_ok \in BOOLEAN : MarkProcessing(id, db_ok)
  \/ \E id \in Ids, a \in ScanYields, insert_ok \in BOOLEAN : AnalyzeScan(id, a, insert_ok)
  \/ \E id \in Ids, db_ok \in BOOLEAN : MarkFailed(id, db_ok)

ProcessSpec == InitProcess /\ [][NextProcess]_vars

\* ============================================================ properties
ApiErrorReason == "Failed to complete analysis due to API errors."
IsApiErrorReport == Get(report, "reason", NoneVal) = ApiErrorReason
ClientError(f) == f.state = "value" /\ HasError(f.val)
Dispatched == dpc # "idle" \/ qpc # "idle"
Returned == pc = "done" /\ outcome = "returned"

\* C1 (as stated): on the non-error path the report is ACCEPTED exactly when
\* scan_match is true, modality_match is true and quality is not "rejected",
\* and REJECTED for every other combination of the three values.
C1_AcceptedIffAllTrue ==
  (Returned /\ "scan_match" \in DOMAIN report) =>
     /\ report.status \in {"ACCEPTED", "REJECTED"}
     /\ report.status = "ACCEPTED" <=>
          (report.scan_match = JTrue /\ report.modality_match = JTrue
             /\ report.quality # "str:rejected")

\* C2: when a client result carries an error key, a returned report is
\* REJECTED, whatever the other client answered.
C2_ErrorNeverAccepted ==
  (ClientError(dfut) \/ ClientError(qfut)) =>
     (outcome = "returned" => report.status = "REJECTED")

C2_Witness ==
  /\ Returned
  /\ ClientError(dfut)
  /\ qfut.state = "value" /\ IsDict(qfut.val) /\ ~HasError(qfut.val)
  /\ DecideStatus(Get(qfut.val, "scan_match", JFalse),
                  Get(qfut.val, "modality_match", JFalse),
                  Get(qfut.val, "image_quality", "str:rejected")) = "ACCEPTED"

\* C3: with an empty locator list, or when every download returned None,
\* analyze_scan returns a REJECTED report, and as long as there is no local
\* file no job is submitted, no status is polled, generate_content is not
\* called and neither worker is started.
NoneDownloaded ==
  pc = "done" /\ local_image_paths = <<>> /\ Len(failed_downloads) = Len(image_paths)

C4_AlwaysReport ==
  pc = "done" => (outcome = "returned" /\ "status" \in DOMAIN report)

\* C5 (as stated): once the invocation has ended, no temporary file the
\* fetcher created exists any more.
C5_NoTempFileLeft ==
  pc = "done" => created \cap files = {}

\* C6 (as stated): analyze_scan called with a string encoding of a locator
\* list (Python literal or JSON text) works on the same locator sequence,
\* in the same order, as when it is called with the list itself.
C6_EncodedListSameAsList ==
  pc # "parse" => image_paths = _parse_image_paths(ListArg(orig))

\* C7: analyze_scan ends (with a report or an exception) only when both
\* workers have finished or neither was started; while one worker is still
\* running nothing is returned.
C7_JoinNotRace ==
  (pc = "done" \/ outcome # "running" \/ report # NoReport) =>
     \/ dpc = "idle" /\ qpc = "idle"
     \/ dpc = "done" /\ qpc = "done"

C7_Witness ==
  /\ Returned
  /\ dpc = "done" /\ qpc = "done"
  /\ "diagnosis" \in DOMAIN report

\* C8 (as stated): when either client failed, diagnosis_error and
\* quality_error both carry an error message, also when only one failed.
C8_BothMessages ==
  (Returned /\ IsApiErrorReport) =>
     (report.diagnosis_error # NoneVal /\ report.quality_error # NoneVal)

\* C8 (amended): the report returned for client errors has both fields;
\* each holds the error message of its own client when that client's result
\* carries one and None otherwise, and at least one of them is a message.
C8_EachClientsOwnMessage ==
  (Returned /\ IsApiErrorReport) =>
     /\ report.status = "REJECTED"
     /\ report.diagnosis_error = Get(dfut.val, "error", NoneVal)
     /\ report.quality_error = Get(qfut.val, "error", NoneVal)
     /\ report.diagnosis_error # NoneVal \/ report.quality_error # NoneVal

C8_Witness ==
  /\ Returned /\ IsApiErrorReport
  /\ ~ClientError(dfut) /\ ClientError(qfut)
  /\ report.diagnosis_error = NoneVal

\* C9 (as stated): a COMPLETED response without the fence markers, or with
\* fenced content that is not valid JSON, ends the client with an error
\* result.
C9_UnfencedIsError ==
  (dlast.status = "COMPLETED" /\ dlast.cls \in {"nofence", "fenced_invalid"}) =>
     (dpc = "done" /\ ClientError(dfut))

\* C10: download failures, remote-call failures, parse failures and
\* unexpected poll statuses end in a value (None from the fetcher, an error
\* dict from a client); an exception leaves analyze_scan only for another
\* reason, and the error report is returned exactly when a client result
\* carries an error key.
FailureKinds == {"remote_call_failure", "parse_failure", "unexpected_status"}

Removed == Range(local_image_paths) \ files

C11_CleanupAfterJoin ==
  /\ Removed # {} => (dpc = "done" /\ qpc = "done" /\ pc = "done")
  /\ (Dispatched /\ (dpc # "done" \/ qpc # "done")) =>
       Range(local_image_paths) \subseteq files

C11_Witness ==
  /\ pc = "done" /\ outcome = "raised"
  /\ dfut.state = "exception"
  /\ qpc = "done" /\ gen_calls = 1
  /\ Removed = Range(local_image_paths) /\ Removed # {}

\* C12: a status response whose status is none of IN_QUEUE, IN_PROGRESS,
\* COMPLETED, FAILED (a missing status included) ends the diagnostic client
\* at once with an error result and no poll follows it; the client polls
\* again only after IN_QUEUE or IN_PROGRESS; and the job is submitted once:
\* never twice, and exactly once whenever a status was polled.
KnownStatuses == PendingStatuses \cup {"COMPLETED", "FAILED"}
UnknownStatusSeen == polls > 0 /\ dlast.cause # "remote_call_failure"
                       /\ dlast.status \notin KnownStatuses

C12_UnknownStatusIsFatal ==
  /\ UnknownStatusSeen =>
       (dpc = "done" /\ ClientError(dfut) /\ dlast.cause = "unexpected_status")
  /\ dlast.cause = "unexpected_status" => (dpc = "done" /\ ClientError(dfut))
  /\ (dpc = "poll" /\ polls > 0) => dlast.status \in PendingStatuses
  /\ job_submits <= 1
  /\ (dpc = "poll" \/ polls > 0) => job_submits = 1

C12_Witness ==
  /\ dpc = "done" /\ polls = 2 /\ job_submits = 1
  /\ dlast.status = NoneVal /\ dlast.cause = "unexpected_status"
  /\ ClientError(dfut)

\* C13 (as stated): when an image was downloaded, the quality call has
\* returned and a status poll was answered COMPLETED or FAILED, the
\* invocation ends with a report; and after the terminal status the poll
\* loop is over.
TerminalStatuses == {"COMPLETED", "FAILED"}
TerminalAnswered == polls > 0 /\ dlast.status \in TerminalStatuses

C13_TerminalAnswerGivesReport ==
  /\ TerminalAnswered => dpc = "done"
  /\ (pc = "done" /\ local_image_paths # <<>> /\ TerminalAnswered
        /\ qfut.state = "value" /\ IsDict(qfut.val)) => Returned

\* C13 (what does hold): after a terminal status the poll loop is over and
\* the invocation comes to its end, with a report or with an exception.
C13_TerminalAnswerLeadsToEnd ==
  TerminalAnswered ~> (pc = "done" /\ dpc = "done" /\ qpc = "done")

\* C14: there is no timeout and no cancellation.  As long as the last
\* status answer is IN_QUEUE or IN_PROGRESS, however many polls were made
\* and whatever the quality call has come to, the diagnostic client is
\* still polling, analyze_scan has not ended and every local file is still
\* there.  And a worker that has ended, with an error or otherwise, leaves
\* the other worker running: its future is still pending, nothing was
\* returned, and its next step can be taken.
Running(wpc) == wpc \notin {"idle", "done"}
LastAnswerPending == polls > 0 /\ dlast.status \in PendingStatuses

C14_NoTimeoutNoCancel ==
  /\ LastAnswerPending =>
       /\ dpc = "poll" /\ dfut = Pending
       /\ pc # "done" /\ outcome = "running" /\ report = NoReport
       /\ local_image_paths # <<>> /\ Range(local_image_paths) \subseteq files
  /\ (Running(dpc) /\ Finished(qfut)) =>
       (dfut = Pending /\ outcome = "running" /\ ENABLED DiagnosisWorker)
  /\ (Running(qpc) /\ Finished(dfut)) =>
       (qfut = Pending /\ outcome = "running" /\ ENABLED QualityWorker)

C14_Witness ==
  /\ LastAnswerPending /\ polls = MaxPolls
  /\ qpc = "done" /\ ClientError(qfut)
  /\ pc = "result_diagnosis"
  /\ Range(local_image_paths) \subseteq files

\* C15: the diagnostic client is called with the parsed locator list as it
\* is, failed downloads included; the quality client is called with the
\* temp files of the locators that downloaded, in the order of the
\* locators, and with nothing else; and both are called in the same
\* invocation.
DownloadedPositions ==
  SelectSeq([i \in 1..Len(image_paths) |-> i],
            LAMBDA i : image_paths[i] \notin Range(failed_downloads))

C15_ClientArguments ==
  /\ dpc # "idle" =>
       /\ diag_images = image_paths
       /\ diag_images = _parse_image_paths(image_paths_str)
       /\ Range(failed_downloads) \subseteq Range(diag_images)
  /\ qpc # "idle" =>
       /\ quality_images = local_image_paths
       /\ quality_images = DownloadedPositions
       /\ quality_images # <<>>
       /\ Range(quality_images) \subseteq created
  /\ Dispatched => (pc = "submit_quality" \/ (dpc # "idle" /\ qpc # "idle"))

C15_Witness ==
  /\ dpc # "idle" /\ qpc # "idle"
  /\ failed_downloads = <<Locator(1)>>
  /\ diag_images = <<Locator(1), Locator(2)>>
  /\ quality_images = <<2>>

\* C16 (as stated): fetching is per item.  A failing locator does not stop
\* the fetch of the remaining ones; when at least one locator downloaded
\* the clients are called, with a non-empty list of local files; when
\* every locator failed a REJECTED report is returned whose
\* failed_downloads is the supplied locator list, in order.
FetchLoopLeft == pc \notin {"parse", "download"}

C16_PerItemFetch ==
  /\ (FetchLoopLeft /\ image_paths # <<>>) =>
       Len(local_image_paths) + Len(failed_downloads) = Len(image_paths)
  /\ (pc = "done" /\ local_image_paths # <<>>) =>
       /\ dpc = "done" /\ qpc = "done"
       /\ quality_images = local_image_paths
  /\ (FetchLoopLeft /\ image_paths # <<>> /\ local_image_paths = <<>>) =>
       /\ Returned
       /\ report.status = "REJECTED"
       /\ "failed_downloads" \in DOMAIN report
       /\ report.failed_downloads = image_paths

\* C17: when the quality verdict lacks image_quality, scan_match or
\* modality_match, the report carries "rejected", false, false in its
\* place, and a report built from such an incomplete verdict is REJECTED.
VerdictKeys == {"image_quality", "scan_match", "modality_match"}
FinalReportReturned == Returned /\ "quality" \in DOMAIN report
IncompleteVerdict == ~(VerdictKeys \subseteq DOMAIN qfut.val)

C17_MissingKeysRejected ==
  (FinalReportReturned /\ IncompleteVerdict) =>
     /\ report.status = "REJECTED"
     /\ "image_quality" \notin DOMAIN qfut.val => report.quality = "str:rejected"
     /\ "scan_match" \notin DOMAIN qfut.val => report.scan_match = JFalse
     /\ "modality_match" \notin DOMAIN qfut.val => report.modality_match = JFalse

C17_Witness ==
  /\ FinalReportReturned
  /\ DOMAIN qfut.val = {"image_quality", "scan_match"}
  /\ qfut.val.image_quality = "str:optimal" /\ qfut.val.scan_match = JTrue
  /\ report.modality_match = JFalse
  /\ report.status = "REJECTED"

\* C18: the diagnostic verdict has no influence on the decision.  The
\* report of a run and the report of any other run with the same Order and
\* the same quality verdict, whose diagnostic verdict is any other one
\* without an error key, have the same fields and agree on all of them
\* except diagnosis; and scan_name, age, sex and modality are the Order's.
ErrorFreeDiagVerdicts == {d \in DiagVerdicts : ~HasError(d)}
OrderKeys == {"scan_name", "age", "sex", "modality"}
OtherRunReport(d2) == CombineResults(d2, qfut.val, order_details).report

C19_SubmissionLifecycle ==
  \A id \in Ids :
    /\ task[id] = "analyze" => submissions[id] = "processing"
    /\ (task[id] = "done" /\ scan_yield[id] \in {"ACCEPTED", "REJECTED"}) =>
         (results[id] = 1 /\ submissions[id] = "completed")
    /\ submissions[id] = "failed" => step_raised[id]
    /\ submissions[id] = "absent" => results[id] = 0

====
